---- MODULE Spec2Model ----
(***************************************************************************)
(* Model of src/index.tsx, which holds two React components named App:     *)
(* the first (lines 151-710) with a flat meal list, a food library, a      *)
(* dated record store and a history chart; the second (lines 838-1290)     *)
(* with a lunch/dinner meal log and predefined foods.  The variable app    *)
(* says which of the two is mounted.                                       *)
(*                                                                         *)
(* Numbers.  JavaScript numbers are modelled by integers in fixed units:   *)
(*   - energy per unit and TDEE in kcal (whole numbers);                   *)
(*   - quantities in half units (quantity 1 is 2, the 0.5 floor is 1);     *)
(*   - BMR in quarter kcal (6.25 * height is 25 * height quarters);        *)
(*   - activity factors in thousandths (1.375 is 1375);                    *)
(*   - meal totals in half kcal (calories * quantity-in-halves).           *)
(* Math.round is round-half-up, Round below.  Binary floating point error  *)
(* is not modelled: products are exact rationals.                          *)
(*                                                                         *)
(* A field typed number | '' is a sequence: <<>> is '' (or undefined),     *)
(* <<n>> is the number n.                                                  *)
(*                                                                         *)
(* React.  A handler started by a user event runs to completion, React     *)
(* re-renders synchronously and flushes the effects the render scheduled   *)
(* before the next event is handled, so a handler and the effects of its   *)
(* state change form one action.  The continuation of an async handler     *)
(* after its await is a separate action, which reads the state variables   *)
(* its closure captured when the handler started.  The effects of the      *)
(* mount are separate steps in SpecStore, where the contents of            *)
(* localStorage between them matter; the other specifications start from   *)
(* the mounted component.                                                  *)
(***************************************************************************)
EXTENDS Integers, Sequences, FiniteSets, TLC

VARIABLES
    app,            \* 1: the first App component is mounted, 2: the second
    stats,          \* useState<UserStats>                       (153, 840)
    tdee,           \* useState<number>                          (154, 849)
    bmr,            \* useState<number>, second App only         (850)
    currentMeals,   \* useState<FoodItem[]>, first App           (157)
    searchQuery,    \* useState(''), first App                   (158)
    foodLibrary,    \* useState<LibraryItem[]>, first App        (161)
    selectedDate,   \* useState<string>, first App               (164)
    history,        \* useState<DailyRecord[]>, first App        (165)
    mealLog,        \* useState<MealLog>, second App             (852)
    foodSearch,     \* useState(''), second App                  (857)
    selectedMeal,   \* useState<'lunch' | 'dinner'>, second App  (858)
    customFoods,    \* useState<FoodItem[]>, second App          (860)
    isAiLoading,    \* useState(false), both Apps                (159, 859)
    aiError,        \* useState(''), first App                   (160)
    alertMsg,       \* text of the last alert() of estimateCaloriesWithAI
    apiKey,         \* whether the environment holds an API key
    pending,        \* generateContent calls awaiting their response
    resolverCalls,  \* number of generateContent calls made so far
    localStorage,   \* the slots 'foodLibrary', 'dailyRecords', 'userStats'
    pc,             \* position of the first App in its startup sequence
    loaded,         \* state updates the effects of the mount have queued
    atMount,        \* localStorage as the mount found it
    now,            \* the last value Date.now() returned (milliseconds)
    lastOp          \* history variable: the handler that ran last

bioVars == <<stats, tdee, bmr>>
mealVars == <<currentMeals, mealLog, selectedMeal>>
searchVars == <<searchQuery, foodSearch>>
libVars == <<foodLibrary, customFoods>>
recordVars == <<selectedDate, history>>
aiVars == <<isAiLoading, aiError, alertMsg, apiKey, pending, resolverCalls>>
storeVars == <<localStorage, pc, loaded, atMount>>
vars == <<app, bioVars, mealVars, searchVars, libVars, recordVars, aiVars, storeVars,
          now, lastOp>>

\* the value of lastOp after handler op; hit tells the handler's cases apart,
\* arg lists what the claims need of the call's arguments and effect
OpArg(op, hit, arg) == [op |-> op, hit |-> hit, arg |-> arg]

Op(op, hit) == OpArg(op, hit, <<>>)

----------------------------------------------------------------------------
(* Arithmetic helpers *)

\* Math.round(n / d) for d > 0: floor(n/d + 1/2)
Round(n, d) == (2 * n + d) \div (2 * d)

\* Number(x) in arithmetic: '' coerces to 0
Num(f) == IF f = <<>> THEN 0 ELSE f[1]

\* !x for x : number | ''  (0 and '' are falsy, a negative number is not)
Falsy(f) == f = <<>> \/ f[1] = 0

----------------------------------------------------------------------------
(* Persistence: localStorage and JSON (first App) *)

\* JSON.stringify leaves out the properties whose value is undefined: the
\* weight of a DailyRecord saved without one
omitUndefined(record) ==
    IF "weight" \in DOMAIN record /\ record.weight = <<>>
    THEN [date |-> record.date, caloriesIntake |-> record.caloriesIntake,
          caloriesBurned |-> record.caloriesBurned]
    ELSE record

\* JSON.stringify of an object of strings and finite numbers (stats): the
\* text "{...}" holds them as they are
JSONstringify(value) == [array |-> FALSE, text |-> value]

\* JSON.stringify of an array of objects (foodLibrary, history): "[...]"
JSONstringifyList(list) ==
    [array |-> TRUE, text |-> [i \in 1..Len(list) |-> omitUndefined(list[i])]]

JSONparse(json) == json.text

\* localStorage.setItem(key, text) on storage; <<>> is a key never set
setItem(storage, key, text) == [storage EXCEPT ![key] = <<text>>]

\* what the three save effects write for the given state
savedState(library, records, profile) ==
    [foodLibrary |-> <<JSONstringifyList(library)>>,
     dailyRecords |-> <<JSONstringifyList(records)>>,
     userStats |-> <<JSONstringify(profile)>>]

\* localStorage before the application has ever run
emptyStorage == [foodLibrary |-> <<>>, dailyRecords |-> <<>>, userStats |-> <<>>]

\* no state update queued
noneLoaded == [tdee |-> <<>>, foodLibrary |-> <<>>, dailyRecords |-> <<>>, userStats |-> <<>>]

\* the component once its startup is over, its save effects run (the second
\* App stores nothing)
Mounted ==
    /\ pc = "ready"
    /\ loaded = noneLoaded
    /\ localStorage = IF app = 1 THEN savedState(foodLibrary, history, stats)
                                  ELSE emptyStorage
    /\ atMount = localStorage

----------------------------------------------------------------------------
(* Biometric profile: BMR and TDEE *)

\* ACTIVITY_LEVELS (values, in thousandths)
ACTIVITY_LEVELS == {1200, 1375, 1550, 1725, 1900}

INITIAL_STATS ==
    [age |-> <<30>>, gender |-> "male", weight |-> <<70>>, height |-> <<175>>,
     activityLevel |-> 1375, goal |-> "lose"]

\* the second App's initial stats
INITIAL_STATS2 ==
    [age |-> <<30>>, gender |-> "male", weight |-> <<70>>, height |-> <<175>>,
     activityLevel |-> 1200, goal |-> "lose"]

\* Mifflin-St Jeor with the male offset applied to everybody: a mutant
calculateBMRSameOffset(s) ==
    IF Falsy(s.weight) \/ Falsy(s.height) \/ Falsy(s.age) THEN 0
    ELSE 40 * Num(s.weight) + 25 * Num(s.height) - 20 * Num(s.age) + 4 * 5

\* calculateBMR, in quarter kcal
calculateBMR(s) ==
    IF Falsy(s.weight) \/ Falsy(s.height) \/ Falsy(s.age) THEN 0
    ELSE LET off == IF s.gender = "male" THEN 5 ELSE -161
         IN  40 * Num(s.weight) + 25 * Num(s.height) - 20 * Num(s.age) + 4 * off

\* calculateTDEE: Math.round(bmr * stats.activityLevel)
calculateTDEE(s) == Round(calculateBMR(s) * s.activityLevel, 4000)

\* the second App's effect computes the BMR inline, with no guard
calculatedBmr(s) ==
    LET base == 40 * Num(s.weight) + 25 * Num(s.height) - 20 * Num(s.age)
    IN  IF s.gender = "male" THEN base + 4 * 5 ELSE base - 4 * 161

\* what the effect on [stats] leaves in tdee and bmr
TdeeOf(a, s) ==
    IF a = 1 THEN calculateTDEE(s) ELSE Round(calculatedBmr(s) * s.activityLevel, 4000)

BmrOf(a, s) == IF a = 1 THEN 0 ELSE Round(calculatedBmr(s), 4)

\* values a user types into the age, weight and height inputs
AgeInputs == {0, 30, 36}
WeightInputs == {-70, 0, 60, 70}
HeightInputs == {0, 165, 175}

\* onChange of a stats input or select: setStats({...stats, [field]: value}),
\* then the effect on [stats]
setStats(field, value) ==
    /\ stats' = [stats EXCEPT ![field] = value]
    /\ tdee' = TdeeOf(app, stats')
    /\ bmr' = BmrOf(app, stats')
    /\ lastOp' = Op("setStats", FALSE)
    /\ UNCHANGED <<app, pc, loaded, atMount, aiVars, mealVars, searchVars, libVars, recordVars, now>>
    \* the save effect on [stats]
    /\ localStorage' = IF app = 1
                       THEN setItem(localStorage, "userStats", JSONstringify(stats'))
                       ELSE localStorage

ChangeAge == \E v \in AgeInputs : setStats("age", <<v>>)
ChangeWeight == \E v \in WeightInputs : setStats("weight", <<v>>)
ChangeHeight == \E v \in HeightInputs : setStats("height", <<v>>)
ChangeGender == \E g \in {"male", "female"} : setStats("gender", g)
ChangeActivity == \E l \in ACTIVITY_LEVELS : setStats("activityLevel", l)

\* profiles the first App can load from the userStats slot: the type allows ''
LoadedStats ==
    {[INITIAL_STATS EXCEPT !.age = a, !.weight = w, !.height = h] :
        a \in {<<30>>, <<>>}, w \in {<<70>>, <<>>}, h \in {<<175>>, <<>>}}

\* getTodayDateString() on the day the component is mounted; a date string
\* YYYY-MM-DD is <<year, month, day>>, the empty string is <<>>
getTodayDateString == <<2024, 1, 1>>

\* no lookup has been made
InitAi ==
    /\ isAiLoading = FALSE
    /\ aiError = ""
    /\ alertMsg = ""
    /\ pending = <<>>
    /\ resolverCalls = 0

\* the state the useState calls give everything but the profile
InitRest ==
    /\ currentMeals = <<>>
    /\ searchQuery = ""
    /\ foodLibrary = <<>>
    /\ selectedDate = getTodayDateString
    /\ history = <<>>
    /\ mealLog = [lunch |-> <<>>, dinner |-> <<>>]
    /\ foodSearch = ""
    /\ selectedMeal = "lunch"
    /\ customFoods = <<>>
    /\ now = 0
    /\ lastOp = Op("mount", FALSE)
    /\ InitAi
    /\ Mounted
    /\ apiKey = TRUE

\* the mounted component once its mount effects have run
InitBio ==
    /\ app \in {1, 2}
    /\ stats \in IF app = 1 THEN LoadedStats ELSE {INITIAL_STATS2}
    /\ tdee = TdeeOf(app, stats)
    /\ bmr = BmrOf(app, stats)
    /\ InitRest

NextBio ==
    \/ ChangeAge
    \/ ChangeWeight
    \/ ChangeHeight
    \/ ChangeGender
    \/ ChangeActivity

SpecBio == InitBio /\ [][NextBio]_vars

----------------------------------------------------------------------------
(* Claims on the biometric profile *)

NonPositive(f) == f = <<>> \/ f[1] <= 0

\* C7: whenever age, weight or height is absent, zero or negative, the BMR
\* and the TDEE are 0.  Stated as written; the code breaks it.
C7_ZeroWhenInvalid ==
    (NonPositive(stats.age) \/ NonPositive(stats.weight) \/ NonPositive(stats.height))
        => /\ tdee = 0
           /\ (IF app = 1 THEN calculateBMR(stats) ELSE calculatedBmr(stats)) = 0

\* the formula of the spec, in quarter kcal times thousandths
MifflinTimesFactor(s) ==
    (40 * s.weight[1] + 25 * s.height[1] - 20 * s.age[1]
        + (IF s.gender = "male" THEN 20 ELSE -644)) * s.activityLevel

\* C8: for age, weight, height > 0 and a listed activity factor the TDEE is
\* the Mifflin-St Jeor value times the factor, rounded to the nearest integer
\* (half up); male, 30, 70 kg, 175 cm, 1.375 gives BMR 1648.75 and TDEE 2267.
C8_TdeeFormula ==
    (~NonPositive(stats.age) /\ ~NonPositive(stats.weight) /\ ~NonPositive(stats.height)
        /\ stats.activityLevel \in ACTIVITY_LEVELS)
        => /\ 4000 * tdee - 2000 <= MifflinTimesFactor(stats)
           /\ MifflinTimesFactor(stats) < 4000 * tdee + 2000
           /\ (stats = INITIAL_STATS
                 => /\ tdee = 2267
                    /\ (app = 1 => calculateBMR(stats) = 6595)
                    /\ (app = 2 => calculatedBmr(stats) = 6595))

\* a female profile with all fields positive, after an edit, with a TDEE whose
\* exact value is not an integer
C8_Witness ==
    /\ stats.gender = "female"
    /\ stats.weight = <<60>> /\ stats.height = <<165>> /\ stats.age = <<36>>
    /\ stats.activityLevel = 1550
    /\ tdee = 2000

----------------------------------------------------------------------------
(* Meal ledger: currentMeals (first App), mealLog (second App) *)

MaxMeals == 2       \* entries in the ledger
MaxQty == 3         \* largest quantity, in half units
MaxNow == 1         \* largest clock value

\* the foodLibrary slot the first App loads at mount
LoadedLibrary ==
    << [name |-> "apple", calories |-> 95, unit |-> "piece"],
       [name |-> "feast", calories |-> 2500, unit |-> "table"] >>

\* PREDEFINED_FOODS (the entries with whole calories that the model uses)
PREDEFINED_FOODS ==
    << [id |-> "1", name |-> "bun", unit |-> "piece", calories |-> 65],
       [id |-> "10", name |-> "hamburger", unit |-> "piece", calories |-> 500] >>

\* texts typed into the search field, and String.prototype.includes on them
SearchTexts == {"", "app", "feast", "bu"}

Includes(name, text) ==
    \/ text = ""
    \/ text = name
    \/ name = "apple" /\ text = "app"
    \/ name = "bun" /\ text = "bu"
    \/ name = "hamburger" /\ text = "bu"

Range(seq) == {seq[i] : i \in 1..Len(seq)}

Filter(seq, Keep(_)) == SelectSeq(seq, Keep)

\* Array.prototype.map
Map(seq, F(_)) == [i \in 1..Len(seq) |-> F(seq[i])]

\* items.reduce((sum, item) => sum + item.calories * 1, 0): the quantity
\* forgotten, a mutant of SumCalories
RECURSIVE SumCaloriesNoQuantity(_)
SumCaloriesNoQuantity(items) ==
    IF items = <<>> THEN 0
    ELSE SumCaloriesNoQuantity(SubSeq(items, 1, Len(items) - 1))
            + 2 * items[Len(items)].calories

\* items.reduce((sum, item) => sum + item.calories * item.quantity, 0),
\* in half kcal
RECURSIVE SumCalories(_)
SumCalories(items) ==
    IF items = <<>> THEN 0
    ELSE SumCalories(SubSeq(items, 1, Len(items) - 1))
            + items[Len(items)].calories * items[Len(items)].quantity

\* onChange of the search field
setSearchQuery ==
    /\ app = 1
    /\ \E text \in SearchTexts : searchQuery' = text
    /\ lastOp' = Op("setSearchQuery", FALSE)
    /\ UNCHANGED <<app, storeVars, aiVars, bioVars, mealVars, foodSearch, libVars, recordVars, now>>

setFoodSearch ==
    /\ app = 2
    /\ \E text \in SearchTexts : foodSearch' = text
    /\ lastOp' = Op("setFoodSearch", FALSE)
    /\ UNCHANGED <<app, storeVars, aiVars, bioVars, mealVars, searchQuery, libVars, recordVars, now>>

\* filteredLibrary, filteredFoods (the second App lower-cases both sides; the
\* model's texts are lower case)
filteredLibrary == Filter(foodLibrary, LAMBDA f : Includes(f.name, searchQuery))

filteredFoods ==
    Filter(PREDEFINED_FOODS \o customFoods, LAMBDA f : Includes(f.name, foodSearch))

\* the FoodItem handleAddFood builds at clock value t
newFood(item, t) ==
    [id |-> t, name |-> item.name, calories |-> item.calories, unit |-> item.unit,
     quantity |-> 2, source |-> "user"]

\* handleAddFood(item): Date.now() returns some t not before the last reading
handleAddFood(item) ==
    \E t \in now..MaxNow :
        /\ now' = t
        /\ currentMeals' = Append(currentMeals, newFood(item, t))

\* click on a suggestion of the library: handleAddFood(item); setSearchQuery('')
ClickSuggestion ==
    /\ app = 1
    /\ searchQuery # ""
    /\ Len(currentMeals) < MaxMeals
    /\ \E i \in 1..Len(filteredLibrary) : handleAddFood(filteredLibrary[i])
    /\ searchQuery' = ""
    /\ lastOp' = Op("handleAddFood", FALSE)
    /\ UNCHANGED <<app, storeVars, aiVars, bioVars, mealLog, selectedMeal, foodSearch, libVars, recordVars>>

\* Math.max(0.5, item.quantity + delta), in half units
newQ(quantity, delta) == IF quantity + delta > 1 THEN quantity + delta ELSE 1

\* the list updateQuantity(id, delta) stores
updatedMeals(prev, id, delta) ==
    Filter(Map(prev, LAMBDA item :
                   IF item.id = id
                   THEN [item EXCEPT !.quantity = newQ(item.quantity, delta)]
                   ELSE item),
           LAMBDA item : item.quantity > 0)

\* deltas of updateQuantity, in half units: the two buttons pass -0.5 and 0.5
Deltas == {-3, -1, 1}

\* updateQuantity(id, delta)
updateQuantity ==
    /\ app = 1
    /\ \E i \in 1..Len(currentMeals), delta \in Deltas :
          /\ currentMeals[i].quantity + delta <= MaxQty
          /\ currentMeals' = updatedMeals(currentMeals, currentMeals[i].id, delta)
    /\ lastOp' = Op("updateQuantity", FALSE)
    /\ UNCHANGED <<app, storeVars, aiVars, bioVars, mealLog, selectedMeal, searchVars, libVars, recordVars, now>>

\* the entries of higher id only: a mutant of withoutId
withoutLowerIds(prev, id) == Filter(prev, LAMBDA item : item.id > id)

\* prev.filter(item => item.id !== id)
withoutId(prev, id) == Filter(prev, LAMBDA item : item.id # id)

\* removeFood(id): the button of a row of the list
removeFood ==
    /\ app = 1
    /\ \E i \in 1..Len(currentMeals) :
          currentMeals' = withoutId(currentMeals, currentMeals[i].id)
    /\ lastOp' = Op("removeFood", FALSE)
    /\ UNCHANGED <<app, storeVars, aiVars, bioVars, mealLog, selectedMeal, searchVars, libVars, recordVars, now>>

\* the second App: tabs of the meal selector
setSelectedMeal ==
    /\ app = 2
    /\ \E meal \in {"lunch", "dinner"} : selectedMeal' = meal
    /\ lastOp' = Op("setSelectedMeal", FALSE)
    /\ UNCHANGED <<app, storeVars, aiVars, bioVars, currentMeals, mealLog, searchVars, libVars, recordVars, now>>

\* ids Math.random().toString(36).substr(2, 9) can return
RandomIds == {0, 1}

\* addFood(food), with meal the selectedMeal of the render that made the
\* closure
addFood(food, meal) ==
    /\ \E r \in RandomIds :
          mealLog' = [mealLog EXCEPT ![meal] =
                         Append(@, [id |-> r, food |-> food, quantity |-> 2])]
    /\ foodSearch' = ""

ClickFood ==
    /\ app = 2
    /\ foodSearch # ""
    /\ Len(mealLog.lunch) + Len(mealLog.dinner) < MaxMeals
    /\ \E i \in 1..Len(filteredFoods) : addFood(filteredFoods[i], selectedMeal)
    /\ lastOp' = Op("addFood", FALSE)
    /\ UNCHANGED <<app, storeVars, aiVars, bioVars, currentMeals, selectedMeal, searchQuery, libVars, recordVars, now>>

\* removeEntry(meal, id)
removeEntry ==
    /\ app = 2
    /\ \E i \in 1..Len(mealLog[selectedMeal]) :
          mealLog' = [mealLog EXCEPT ![selectedMeal] =
                         withoutId(@, mealLog[selectedMeal][i].id)]
    /\ lastOp' = Op("removeEntry", FALSE)
    /\ UNCHANGED <<app, storeVars, aiVars, bioVars, currentMeals, selectedMeal, searchVars, libVars, recordVars, now>>

\* quantities typed into the number input of an entry, in half units
TypedQuantities == {-1, 0, 2}

\* the second App's updateQuantity(meal, id, newQty): the minus and plus
\* buttons pass quantity -+ 0.5, the input passes what was typed
updateQuantity2 ==
    /\ app = 2
    /\ \E i \in 1..Len(mealLog[selectedMeal]) :
          \E newQty \in {mealLog[selectedMeal][i].quantity - 1,
                         mealLog[selectedMeal][i].quantity + 1} \cup TypedQuantities :
             /\ newQty <= MaxQty
             /\ IF newQty < 0
                THEN UNCHANGED mealLog
                ELSE mealLog' = [mealLog EXCEPT ![selectedMeal] =
                        Map(@, LAMBDA item :
                                IF item.id = mealLog[selectedMeal][i].id
                                THEN [item EXCEPT !.quantity = newQty]
                                ELSE item)]
    /\ lastOp' = Op("updateQuantity2", FALSE)
    /\ UNCHANGED <<app, storeVars, aiVars, bioVars, currentMeals, selectedMeal, searchVars, libVars, recordVars, now>>

----------------------------------------------------------------------------
(* Projection: values computed at render *)

\* calculateMealCalories(entries), in half kcal
RECURSIVE calculateMealCalories(_)
calculateMealCalories(entries) ==
    IF entries = <<>> THEN 0
    ELSE calculateMealCalories(SubSeq(entries, 1, Len(entries) - 1))
            + entries[Len(entries)].food.calories * entries[Len(entries)].quantity

\* totalCalories (first App), totalIntake (second App), in half kcal
totalCalories == SumCalories(currentMeals)

totalIntake == calculateMealCalories(mealLog.lunch) + calculateMealCalories(mealLog.dinner)

\* calorieDiff (first App), dailyBalance (second App), in half kcal
calorieDiff == totalCalories - 2 * tdee

dailyBalance == totalIntake - 2 * tdee

\* a 30-day, 7000 kcal/kg projection: a mutant of projectedWeightChange
projectedWeightChangeMonthly ==
    IF app = 1 THEN [num |-> calorieDiff * 30, den |-> 2 * 7000]
               ELSE [num |-> dailyBalance * 30, den |-> 2 * 7000]

\* projectedWeightChange, in kg, as the fraction num / den:
\* (calorieDiff * 7) / 7700 and weeklyBalance / 7700
projectedWeightChange ==
    IF app = 1 THEN [num |-> calorieDiff * 7, den |-> 2 * 7700]
               ELSE [num |-> dailyBalance * 7, den |-> 2 * 7700]

\* stats.weight + projectedWeightChange (second App), as a fraction
projectedWeight ==
    [num |-> Num(stats.weight) * projectedWeightChange.den + projectedWeightChange.num,
     den |-> projectedWeightChange.den]

\* the number a / b of JavaScript, as a fraction: x / 0 is Infinity for
\* x > 0, -Infinity for x < 0 and NaN for x = 0
JsDivide(a, b) ==
    IF b # 0 THEN [kind |-> "finite", num |-> a, den |-> b]
    ELSE IF a = 0 THEN [kind |-> "NaN", num |-> 0, den |-> 1]
    ELSE IF a > 0 THEN [kind |-> "Infinity", num |-> 1, den |-> 1]
    ELSE [kind |-> "Infinity", num |-> -1, den |-> 1]

\* totalCalories / tdee, totalIntake / tdee: evaluated at every render
intakeRatio ==
    JsDivide(IF app = 1 THEN totalCalories ELSE totalIntake, 2 * tdee)

\* Math.min(ratio * 100, 100): the width of the progress bar, in percent
progressWidth ==
    IF intakeRatio.kind = "NaN" THEN intakeRatio
    ELSE IF intakeRatio.kind = "Infinity"
         THEN IF intakeRatio.num > 0
              THEN [kind |-> "finite", num |-> 100, den |-> 1]
              ELSE intakeRatio
    ELSE IF (100 * intakeRatio.num) * (IF intakeRatio.den > 0 THEN 1 ELSE -1)
               < 100 * intakeRatio.den * (IF intakeRatio.den > 0 THEN 1 ELSE -1)
         THEN [kind |-> "finite", num |-> 100 * intakeRatio.num, den |-> intakeRatio.den]
         ELSE [kind |-> "finite", num |-> 100, den |-> 1]

\* Math.round(ratio * 100): the percentage the second App prints
percentage ==
    IF intakeRatio.kind = "finite"
    THEN [kind |-> "finite",
          num |-> IF intakeRatio.den > 0
                  THEN Round(100 * intakeRatio.num, intakeRatio.den)
                  ELSE Round(-100 * intakeRatio.num, -intakeRatio.den),
          den |-> 1]
    ELSE intakeRatio

\* the first App with a saved library and profile, the second as constructed
InitMeals ==
    /\ app \in {1, 2}
    /\ stats \in IF app = 1
                 THEN {INITIAL_STATS,
                       [INITIAL_STATS EXCEPT !.gender = "female", !.age = <<36>>,
                            !.weight = <<60>>, !.height = <<165>>, !.activityLevel = 1550]}
                 ELSE {INITIAL_STATS2}
    /\ tdee = TdeeOf(app, stats)
    /\ bmr = BmrOf(app, stats)
    /\ currentMeals = <<>>
    /\ searchQuery = ""
    /\ foodLibrary = IF app = 1 THEN LoadedLibrary ELSE <<>>
    /\ selectedDate = getTodayDateString
    /\ history = <<>>
    /\ mealLog = [lunch |-> <<>>, dinner |-> <<>>]
    /\ foodSearch = ""
    /\ selectedMeal = "lunch"
    /\ customFoods = <<>>
    /\ now = 0
    /\ lastOp = Op("mount", FALSE)
    /\ InitAi
    /\ Mounted
    /\ apiKey = TRUE

NextMeals ==
    \/ setSearchQuery
    \/ ClickSuggestion
    \/ updateQuantity
    \/ removeFood
    \/ setFoodSearch
    \/ setSelectedMeal
    \/ ClickFood
    \/ removeEntry
    \/ updateQuantity2

SpecMeals == InitMeals /\ [][NextMeals]_vars

\* adds and removals alone, every entry at quantity 1
NextRemove ==
    \/ setSearchQuery
    \/ ClickSuggestion
    \/ removeFood
    \/ setFoodSearch
    \/ setSelectedMeal
    \/ ClickFood
    \/ removeEntry

SpecRemove == InitMeals /\ [][NextRemove]_vars

----------------------------------------------------------------------------
(* Claims on the ledger and the projection *)

\* C3: every entry of the meal ledger has quantity >= 0.5.  Stated as
\* written, for the ledgers of both components; the second App breaks it.
C3_QuantityFloor ==
    /\ \A i \in 1..Len(currentMeals) : currentMeals[i].quantity >= 1
    /\ \A m \in {"lunch", "dinner"} :
          \A i \in 1..Len(mealLog[m]) : mealLog[m][i].quantity >= 1

\* every ledger entry of the mounted component, as <<calories, quantity>>
LedgerEntries ==
    IF app = 1
    THEN [i \in 1..Len(currentMeals) |->
             <<currentMeals[i].calories, currentMeals[i].quantity>>]
    ELSE [i \in 1..Len(mealLog.lunch \o mealLog.dinner) |->
             <<(mealLog.lunch \o mealLog.dinner)[i].food.calories,
               (mealLog.lunch \o mealLog.dinner)[i].quantity>>]

\* sum of calories * quantity over the entries from index i on, in half kcal
RECURSIVE LedgerSumFrom(_, _)
LedgerSumFrom(entries, i) ==
    IF i > Len(entries) THEN 0
    ELSE entries[i][1] * entries[i][2] + LedgerSumFrom(entries, i + 1)

Balance == IF app = 1 THEN calorieDiff ELSE dailyBalance

\* C9: the daily balance is the sum over the ledger of calories * quantity
\* minus the TDEE; the projected 7-day change c has 7700 * c = 7 * balance
\* (intake 2500, TDEE 2000: balance 500, c = 3500/7700); the projected
\* weight is the current weight + c.
C9_Projection ==
    /\ Balance = LedgerSumFrom(LedgerEntries, 1) - 2 * tdee
    \* c = num / den and 7700 * c = 7 * Balance / 2, divided by 7
    /\ projectedWeightChange.den > 0
    /\ 2200 * projectedWeightChange.num = Balance * projectedWeightChange.den
    /\ (LedgerSumFrom(LedgerEntries, 1) = 2 * 2500 /\ tdee = 2000)
          => /\ Balance = 2 * 500
             /\ 7700 * projectedWeightChange.num = 3500 * projectedWeightChange.den
    \* the two fractions have one denominator
    /\ app = 2 =>
          /\ projectedWeight.den = projectedWeightChange.den
          /\ projectedWeight.num - stats.weight[1] * projectedWeight.den
                = projectedWeightChange.num

\* the example of the spec: intake 2500 from two entries, TDEE 2000
C9_Witness ==
    /\ app = 1
    /\ Len(currentMeals) = 2
    /\ totalCalories = 2 * 2500
    /\ tdee = 2000

\* the ids an entry can carry
EntryIds == (0..MaxNow) \cup RandomIds

\* the k-th smallest element of the set of indices K
Nth(K, k) == CHOOSE i \in K : Cardinality({j \in K : j < i}) = k - 1

\* the entries of list at the indices K, in the order of list
SubAt(list, K) == [k \in 1..Cardinality(K) |-> list[Nth(K, k)]]

OtherIds(list, id) == {i \in 1..Len(list) : list[i].id # id}

\* the lists remove(id) acts on
Ledgers == IF app = 1 THEN {currentMeals} ELSE {mealLog.lunch, mealLog.dinner}

\* remove(id) on list: the entries of other ids stay, in order; nothing
\* changes when the id is absent; a second application changes nothing
RemoveLaws(list, id) ==
    /\ withoutId(list, id) = SubAt(list, OtherIds(list, id))
    /\ (\A i \in 1..Len(list) : list[i].id # id) => withoutId(list, id) = list
    /\ withoutId(withoutId(list, id), id) = withoutId(list, id)

\* C12: remove(id) deletes the entry of that id and leaves the other entries
\* unchanged; with no entry of that id the ledger is unchanged, so remove(id)
\* applied twice gives what it gives applied once.  The steps of removeFood
\* and removeEntry store such a list.
C12_RemoveById ==
    [][/\ \A list \in Ledgers, id \in EntryIds : RemoveLaws(list, id)
       /\ lastOp'.op = "removeFood"
             => \E id \in EntryIds :
                   /\ OtherIds(currentMeals, id) # 1..Len(currentMeals)
                   /\ currentMeals' = SubAt(currentMeals, OtherIds(currentMeals, id))
       /\ lastOp'.op = "removeEntry"
             => \E id \in EntryIds :
                   /\ OtherIds(mealLog[selectedMeal], id) # 1..Len(mealLog[selectedMeal])
                   /\ mealLog' = [mealLog EXCEPT ![selectedMeal] =
                                      SubAt(@, OtherIds(@, id))]]_vars

\* a removal has just left one entry of two in the ledger
C12_Witness ==
    \/ lastOp.op = "removeFood" /\ Len(currentMeals) = 1
    \/ lastOp.op = "removeEntry" /\ Len(mealLog[selectedMeal]) = 1

\* C14: the entries of the meal ledger have pairwise distinct ids, also when
\* two adds fall into one clock tick.  Stated as written, for the ledger
\* whose ids are clock readings; two adds in one millisecond break it.
C14_DistinctIds ==
    \A i, j \in 1..Len(currentMeals) : currentMeals[i].id = currentMeals[j].id => i = j

----------------------------------------------------------------------------
(* Record store: history (first App) *)

\* values of the date input: cleared (''), and two days
DateInputs == {<<>>, <<2023, 12, 31>>, <<2024, 1, 1>>}

\* new Date(date).getTime() is NaN for a string that is no date
IsNaN(date) == date = <<>>

\* new Date('YYYY-MM-DD').getTime(), in days since 1970-01-01 (UTC midnight
\* of the civil date) instead of milliseconds
getTime(date) ==
    LET y   == IF date[2] <= 2 THEN date[1] - 1 ELSE date[1]
        era == y \div 400
        yoe == y - era * 400
        mp  == (date[2] + 9) % 12
        doy == (153 * mp + 2) \div 5 + date[3] - 1
        doe == yoe * 365 + yoe \div 4 - yoe \div 100 + doy
    IN  era * 146097 + doe - 719468

\* (a, b) => new Date(b.date).getTime() - new Date(a.date).getTime(); sort
\* reads a NaN result as +0
compareRecords(a, b) ==
    IF IsNaN(a.date) \/ IsNaN(b.date) THEN 0 ELSE getTime(b.date) - getTime(a.date)

\* stable insertion of x into a sorted list
RECURSIVE InsertRecord(_, _)
InsertRecord(sorted, x) ==
    IF sorted = <<>> THEN <<x>>
    ELSE IF compareRecords(sorted[Len(sorted)], x) <= 0 THEN Append(sorted, x)
    ELSE Append(InsertRecord(SubSeq(sorted, 1, Len(sorted) - 1), x), sorted[Len(sorted)])

RECURSIVE StableSort(_)
StableSort(items) ==
    IF items = <<>> THEN <<>>
    ELSE InsertRecord(StableSort(SubSeq(items, 1, Len(items) - 1)), items[Len(items)])

Reorderings(items) ==
    {[i \in 1..Len(items) |-> items[f[i]]] :
        f \in {g \in [1..Len(items) -> 1..Len(items)] :
                  \A i, j \in 1..Len(items) : g[i] = g[j] => i = j}}

\* a comparator is consistent when it orders the items as a strict weak
\* order: with a NaN date in the list, only when the other dates are equal
ConsistentComparator(items) ==
    \/ \A i \in 1..Len(items) : ~IsNaN(items[i].date)
    \/ \A i, j \in 1..Len(items) :
          (~IsNaN(items[i].date) /\ ~IsNaN(items[j].date))
              => getTime(items[i].date) = getTime(items[j].date)

\* Array.prototype.sort(compareRecords): stable; the order is implementation
\* defined when the comparator is not consistent for the items
SortResults(items) ==
    IF ConsistentComparator(items) THEN {StableSort(items)} ELSE Reorderings(items)

\* the list without the append's filter: a mutant of withoutDate
withoutDateKeepAll(prev, date) == prev

\* the list emptied: a mutant of withoutDate
withoutDateDropAll(prev, date) == <<>>

\* prev.filter(r => r.date !== date)
withoutDate(prev, date) == Filter(prev, LAMBDA r : r.date # date)

\* newRecord of handleSaveRecord
newRecord ==
    [date |-> selectedDate,
     caloriesIntake |-> Round(SumCalories(currentMeals), 2),
     caloriesBurned |-> tdee,
     weight |-> stats.weight]

\* onChange of the date input
setSelectedDate ==
    /\ app = 1
    /\ \E date \in DateInputs : selectedDate' = date
    /\ lastOp' = Op("setSelectedDate", FALSE)
    /\ UNCHANGED <<app, storeVars, aiVars, bioVars, mealVars, searchVars, libVars, history, now>>

\* handleSaveRecord; hit: a record of the selected date was stored before
handleSaveRecord ==
    /\ app = 1
    /\ history' \in SortResults(Append(withoutDate(history, selectedDate), newRecord))
    /\ lastOp' = Op("handleSaveRecord", \E i \in 1..Len(history) : history[i].date = selectedDate)
    /\ UNCHANGED <<app, pc, loaded, atMount, aiVars, bioVars, mealVars, searchVars, libVars, selectedDate, now>>
    \* the save effect on [history]
    /\ localStorage' = setItem(localStorage, "dailyRecords", JSONstringifyList(history'))

\* handleDeleteRecord(dateToDelete); hit: the user confirmed; arg: the date
\* and the number of records the step removed
handleDeleteRecord ==
    /\ app = 1
    /\ \E dateToDelete \in DateInputs, confirm \in BOOLEAN :
          /\ history' = IF confirm THEN withoutDate(history, dateToDelete) ELSE history
          /\ lastOp' = OpArg("handleDeleteRecord", confirm,
                             <<dateToDelete, Len(history) - Len(history')>>)
    /\ UNCHANGED <<app, pc, loaded, atMount, aiVars, bioVars, mealVars, searchVars, libVars, selectedDate, now>>
    \* the save effect on [history]: filter gives a new array
    /\ localStorage' = IF lastOp'.hit
                       THEN setItem(localStorage, "dailyRecords",
                                    JSONstringifyList(history'))
                       ELSE localStorage

----------------------------------------------------------------------------
(* Trend chart: values computed at render from history and tdee *)

WindowSize == 7     \* slice(-7)
ChartWidth == 100   \* const width = 100, in viewBox units

\* (a, b) => new Date(a.date).getTime() - new Date(b.date).getTime()
compareChronological(a, b) == compareRecords(b, a)

RECURSIVE InsertChronological(_, _)
InsertChronological(sorted, x) ==
    IF sorted = <<>> THEN <<x>>
    ELSE IF compareChronological(sorted[Len(sorted)], x) <= 0 THEN Append(sorted, x)
    ELSE Append(InsertChronological(SubSeq(sorted, 1, Len(sorted) - 1), x),
                sorted[Len(sorted)])

RECURSIVE SortChronological(_)
SortChronological(items) ==
    IF items = <<>> THEN <<>>
    ELSE InsertChronological(SortChronological(SubSeq(items, 1, Len(items) - 1)),
                             items[Len(items)])

\* Array.prototype.slice(-n)
LastN(items, n) ==
    IF Len(items) <= n THEN items ELSE SubSeq(items, Len(items) - n + 1, Len(items))

\* the lists sortedHistory can be: [...history].sort(...).slice(-7)
sortedHistory ==
    {LastN(sorted, WindowSize) :
        sorted \in IF ConsistentComparator(history)
                   THEN {SortChronological(history)}
                   ELSE Reorderings(history)}

\* the number of records in the window
windowLength == IF Len(history) <= WindowSize THEN Len(history) ELSE WindowSize

\* the chart drawn whatever the store holds: a mutant of chartState
chartStateDrawn == "drawn"

\* what the render makes of the chart: the section is left out when
\* history.length > 0 fails, a text is returned when the window is empty,
\* else maxVal, getX and getY are evaluated and the chart is drawn
chartState ==
    IF ~(Len(history) > 0) THEN "absent"
    ELSE IF windowLength = 0 THEN "no data"
    ELSE "drawn"

\* Math.max(...values)
MaxOf(values) == CHOOSE v \in values : \A w \in values : w <= v

\* the values Math.max is given: the intakes of the window and tdee
intakeValues(window) == {window[i].caloriesIntake : i \in 1..Len(window)} \cup {tdee}

\* maxVal = Math.max(...) * 1.2, as a fraction
maxVal(window) == [num |-> 12 * MaxOf(intakeValues(window)), den |-> 10]

\* the single point at the left edge: a mutant of getX
getXLeft(i, length) ==
    IF length <= 1 THEN [num |-> 0, den |-> 1]
    ELSE [num |-> i * 100, den |-> length - 1]

\* getX(i) for a window of length records, as a fraction
getX(i, length) ==
    IF length <= 1 THEN [num |-> 50, den |-> 1]
    ELSE [num |-> i * 100, den |-> length - 1]

ChartHeight == 50   \* const height = 50, in viewBox units

\* getY(val) = height - (val / maxVal) * height, as a fraction
getY(val, window) ==
    LET q == JsDivide(val * maxVal(window).den, maxVal(window).num)
    IN  IF q.kind = "finite"
        THEN [kind |-> "finite",
              num |-> ChartHeight * q.den - ChartHeight * q.num,
              den |-> q.den]
        ELSE IF q.kind = "NaN" THEN q
        ELSE [kind |-> "Infinity", num |-> -q.num, den |-> 1]

\* tdeeY = getY(tdee)
tdeeY(window) == getY(tdee, window)

\* sortedHistory.map((d, i) => `${getX(i)},${getY(d.caloriesIntake)}`)
points(window) ==
    [i \in 1..Len(window) |->
        [x |-> getX(i - 1, Len(window)), y |-> getY(window[i].caloriesIntake, window)]]

apple == LoadedLibrary[1]
feast == LoadedLibrary[2]

\* ledgers of the day: empty; half an apple; a feast and one and a half apples
LedgerSamples ==
    { <<>>,
      updatedMeals(<<newFood(apple, 0)>>, 0, -1),
      updatedMeals(<<newFood(feast, 0), newFood(apple, 1)>>, 1, 1) }

\* the first App with an empty record store, some day's ledger entered
Init ==
    /\ app = 1
    /\ stats = INITIAL_STATS
    /\ tdee = TdeeOf(app, stats)
    /\ bmr = BmrOf(app, stats)
    /\ currentMeals \in LedgerSamples
    /\ searchQuery = ""
    /\ foodLibrary = LoadedLibrary
    /\ selectedDate = getTodayDateString
    /\ history = <<>>
    /\ mealLog = [lunch |-> <<>>, dinner |-> <<>>]
    /\ foodSearch = ""
    /\ selectedMeal = "lunch"
    /\ customFoods = <<>>
    /\ now = 1
    /\ lastOp = Op("mount", FALSE)
    /\ InitAi
    /\ Mounted
    /\ apiKey = TRUE

Next ==
    \/ setSelectedDate
    \/ handleSaveRecord
    \/ handleDeleteRecord
    \/ ChangeWeight

Spec == Init /\ [][Next]_vars

----------------------------------------------------------------------------
(* Startup of the first App: the effects of the mount in source order, then *)
(* the render of the updates they queued with the effects of that render    *)

\* record stores a former session can have saved
SavedRecords ==
    { << [date |-> <<2024, 1, 1>>, caloriesIntake |-> 2500, caloriesBurned |-> 1500,
          weight |-> <<60>>],
         [date |-> <<2023, 12, 31>>, caloriesIntake |-> 95, caloriesBurned |-> 1500] >> }

\* a profile a former session can have saved
SavedStats == {[INITIAL_STATS EXCEPT !.weight = <<60>>]}

\* what localStorage can hold when the page is opened: each slot never
\* written, or written by a former session
PriorStorage ==
    [foodLibrary : {<<>>} \cup {<<JSONstringifyList(l)>> : l \in {LoadedLibrary}},
     dailyRecords : {<<>>} \cup {<<JSONstringifyList(h)>> : h \in SavedRecords},
     userStats : {<<>>} \cup {<<JSONstringify(s)>> : s \in SavedStats}]

\* the first App rendered with the values of its useState calls, its effects
\* not yet run
InitStore ==
    /\ app = 1
    /\ stats = INITIAL_STATS
    /\ tdee = 0
    /\ bmr = 0
    /\ currentMeals = <<>>
    /\ searchQuery = ""
    /\ foodLibrary = <<>>
    /\ selectedDate = getTodayDateString
    /\ history = <<>>
    /\ mealLog = [lunch |-> <<>>, dinner |-> <<>>]
    /\ foodSearch = ""
    /\ selectedMeal = "lunch"
    /\ customFoods = <<>>
    /\ now = 1
    /\ lastOp = Op("mount", FALSE)
    /\ InitAi
    /\ apiKey = TRUE
    /\ pc = "tdeeEffect"
    /\ loaded = noneLoaded
    /\ localStorage \in PriorStorage
    /\ atMount = localStorage

\* localStorage.getItem(key) followed by if (saved) ... JSON.parse(saved):
\* <<>> when the slot is missing, else the parsed value to set
getItemParsed(key) ==
    IF localStorage[key] = <<>> THEN <<>> ELSE <<JSONparse(localStorage[key][1])>>

\* useEffect(() => { setTdee(calculateTDEE(stats)) }, [stats]) at the mount
tdeeEffect ==
    /\ pc = "tdeeEffect"
    /\ loaded' = [loaded EXCEPT !.tdee = <<calculateTDEE(stats)>>]
    /\ pc' = "loadEffect"
    /\ lastOp' = Op("tdeeEffect", FALSE)
    /\ UNCHANGED <<app, localStorage, atMount, aiVars, bioVars, mealVars, searchVars,
                   libVars, recordVars, now>>

\* the load effect: the three reads, each queueing a state update
loadEffect ==
    /\ pc = "loadEffect"
    /\ loaded' = [loaded EXCEPT !.foodLibrary = getItemParsed("foodLibrary"),
                                !.dailyRecords = getItemParsed("dailyRecords"),
                                !.userStats = getItemParsed("userStats")]
    /\ pc' = "saveLibraryEffect"
    /\ lastOp' = Op("loadEffect", loaded' # loaded)
    /\ UNCHANGED <<app, localStorage, atMount, aiVars, bioVars, mealVars, searchVars,
                   libVars, recordVars, now>>

\* the save effect on [foodLibrary] at the mount: foodLibrary is the value of
\* the first render
saveLibraryEffect ==
    /\ pc = "saveLibraryEffect"
    /\ localStorage' = setItem(localStorage, "foodLibrary", JSONstringifyList(foodLibrary))
    /\ pc' = "saveHistoryEffect"
    /\ lastOp' = Op("saveLibraryEffect", FALSE)
    /\ UNCHANGED <<app, loaded, atMount, aiVars, bioVars, mealVars, searchVars,
                   libVars, recordVars, now>>

\* the save effect on [history] at the mount
saveHistoryEffect ==
    /\ pc = "saveHistoryEffect"
    /\ localStorage' = setItem(localStorage, "dailyRecords", JSONstringifyList(history))
    /\ pc' = "saveStatsEffect"
    /\ lastOp' = Op("saveHistoryEffect", FALSE)
    /\ UNCHANGED <<app, loaded, atMount, aiVars, bioVars, mealVars, searchVars,
                   libVars, recordVars, now>>

\* the save effect on [stats] at the mount
saveStatsEffect ==
    /\ pc = "saveStatsEffect"
    /\ localStorage' = setItem(localStorage, "userStats", JSONstringify(stats))
    /\ pc' = "render"
    /\ lastOp' = Op("saveStatsEffect", FALSE)
    /\ UNCHANGED <<app, loaded, atMount, aiVars, bioVars, mealVars, searchVars,
                   libVars, recordVars, now>>

\* the queued value of a state variable, or the value it has
Queued(key, current) == IF loaded[key] = <<>> THEN current ELSE loaded[key][1]

\* the render of the queued updates and its effects: the save effect of each
\* state variable that got a new value, and the effect on [stats], whose
\* setTdee the next render applies
rerender ==
    /\ pc = "render"
    /\ foodLibrary' = Queued("foodLibrary", foodLibrary)
    /\ history' = Queued("dailyRecords", history)
    /\ stats' = Queued("userStats", stats)
    /\ tdee' = calculateTDEE(stats')
    /\ localStorage' =
          [key \in DOMAIN localStorage |->
              IF loaded[key] = <<>> THEN localStorage[key]
              ELSE savedState(foodLibrary', history', stats')[key]]
    /\ loaded' = noneLoaded
    /\ pc' = "ready"
    /\ lastOp' = Op("rerender", loaded # noneLoaded)
    /\ UNCHANGED <<app, atMount, aiVars, bmr, mealVars, searchVars, customFoods,
                   selectedDate, now>>

\* user events are handled once the effects have run
NextStore ==
    \/ tdeeEffect
    \/ loadEffect
    \/ saveLibraryEffect
    \/ saveHistoryEffect
    \/ saveStatsEffect
    \/ rerender
    \/ pc = "ready" /\ handleSaveRecord
    \/ pc = "ready" /\ handleDeleteRecord
    \/ pc = "ready" /\ ChangeWeight
    \/ pc = "ready" /\ setSearchQuery
    \/ pc = "ready" /\ ClickSuggestion

SpecStore == InitStore /\ [][NextStore]_vars

----------------------------------------------------------------------------
(* Claims on the record store *)

\* C1: the store holds at most one record per date; a save for a date that
\* already has a record leaves exactly one record for it.
C1_OneRecordPerDate ==
    /\ \A i, j \in 1..Len(history) : history[i].date = history[j].date => i = j
    /\ lastOp.op = "handleSaveRecord"
          => Cardinality({i \in 1..Len(history) : history[i].date = selectedDate}) = 1

\* a save has just replaced the record of its date, another record is stored
C1_Witness ==
    /\ lastOp = Op("handleSaveRecord", TRUE)
    /\ Len(history) = 2

\* the records of prev whose date is not date, as a set
RecordsOfOtherDates(prev, date) == {r \in Range(prev) : r.date # date}

\* what C2 says of a step of handleSaveRecord
SavePost ==
    /\ Cardinality({i \in 1..Len(history') : history'[i].date = selectedDate}) = 1
    /\ \A i \in 1..Len(history') :
          history'[i].date = selectedDate
             => /\ 2 * history'[i].caloriesIntake - 1 <= LedgerSumFrom(LedgerEntries, 1)
                /\ LedgerSumFrom(LedgerEntries, 1) < 2 * history'[i].caloriesIntake + 1
                /\ history'[i].caloriesBurned = calculateTDEE(stats)
    /\ RecordsOfOtherDates(history', selectedDate) = RecordsOfOtherDates(history, selectedDate)
    /\ Len(history') = Cardinality(RecordsOfOtherDates(history, selectedDate)) + 1

\* C2: right after a save with selected date d the record of d has
\* caloriesIntake = round(sum of calories * quantity over the ledger) and
\* caloriesBurned = the TDEE of the current profile; it replaces the record
\* stored for d before, and the records of the other dates are unchanged.
C2_SaveStoresSnapshot == [][lastOp'.op = "handleSaveRecord" => SavePost]_vars

\* a save has just replaced a record, with an intake rounded up from 2642.5
\* and a TDEE that differs from that of the other stored record
C2_Witness ==
    /\ lastOp = Op("handleSaveRecord", TRUE)
    /\ Len(history) = 2
    /\ \E i, j \in 1..2 :
          /\ history[i].date = selectedDate
          /\ history[i].caloriesIntake = 2643
          /\ history[i].caloriesBurned = tdee
          /\ history[j].caloriesBurned # tdee

\* the indices of the records of prev whose date is not date
OtherDates(prev, date) == {i \in 1..Len(prev) : prev[i].date # date}

\* what C11 says of a step of handleDeleteRecord(date)
DeletePost(date, confirmed) ==
    IF confirmed /\ \E i \in 1..Len(history) : history[i].date = date
    THEN /\ Len(history') = Cardinality(OtherDates(history, date))
         /\ \A k \in 1..Len(history') :
               history'[k] = history[Nth(OtherDates(history, date), k)]
    ELSE history' = history

\* C11: a confirmed delete(date) removes the record of that date and leaves
\* the other records and their order unchanged; a delete of a date with no
\* record, and a delete that is not confirmed, leave the store unchanged.
C11_DeleteFrame ==
    [][lastOp'.op = "handleDeleteRecord"
          => DeletePost(lastOp'.arg[1], lastOp'.hit)]_vars

\* a confirmed delete has just removed one record of three
C11_Witness ==
    /\ lastOp.op = "handleDeleteRecord"
    /\ lastOp.hit
    /\ lastOp.arg[2] = 1
    /\ Len(history) = 2

\* C17: with a TDEE of 0 the daily balance is the intake and the percentage
\* of the target shown is 0, no division by zero being evaluated.  Stated as
\* written; the render divides by tdee unguarded.
C17_ZeroTdeeGuarded ==
    tdee = 0
       => /\ Balance = LedgerSumFrom(LedgerEntries, 1)
          /\ intakeRatio.kind = "finite"
          /\ progressWidth.kind = "finite" /\ progressWidth.num = 0
          /\ percentage.kind = "finite" /\ percentage.num = 0

\* the half of C17 that holds: with a TDEE of 0 the balance is the intake
ZeroTdeeBalance == tdee = 0 => Balance = LedgerSumFrom(LedgerEntries, 1)

\* C18: with an empty record store the chart is not rendered or reports no
\* data, and evaluates neither the maximum nor a division (both belong to
\* the drawn chart, which has at least one record in its window).
C18_EmptyStoreNoChart ==
    /\ history = <<>> => chartState \in {"absent", "no data"}
    /\ chartState = "drawn"
          => \A window \in sortedHistory : Len(window) >= 1

\* a confirmed delete has just emptied the store
C18_Witness ==
    /\ lastOp.op = "handleDeleteRecord"
    /\ lastOp.hit
    /\ lastOp.arg[2] = 1
    /\ history = <<>>

\* fractions a and b are equal
SameFraction(a, b) == a.num * b.den = b.num * a.den

\* C19: in a window of N records, for N = 1 the point is at x = width / 2;
\* for N >= 2 point i (from 0) is at x = i * width / (N - 1): the first at
\* the left edge, the last at the right edge, the points equally spaced.
C19_PointPlacement ==
    chartState = "drawn"
       => LET N == windowLength
          IN /\ N = 1 => SameFraction(getX(0, N), [num |-> ChartWidth, den |-> 2])
             /\ N >= 2 =>
                   /\ \A i \in 0..(N - 1) :
                         SameFraction(getX(i, N), [num |-> i * ChartWidth, den |-> N - 1])
                   /\ getX(0, N).num = 0
                   /\ SameFraction(getX(N - 1, N), [num |-> ChartWidth, den |-> 1])
                   /\ \A i \in 0..(N - 2) :
                         (getX(i + 1, N).num * getX(i, N).den
                            - getX(i, N).num * getX(i + 1, N).den) * (N - 1)
                          = ChartWidth * getX(i, N).den * getX(i + 1, N).den

\* a window of three records is drawn
C19_Witness == chartState = "drawn" /\ windowLength = 3

\* a window of one record is drawn
SinglePointWindow == chartState = "drawn" /\ windowLength = 1

\* C20: the Y-scale maximum of a drawn chart is max(intakes of the window,
\* TDEE) * 1.15.  Stated as written; the code multiplies by 1.2.
C20_Headroom ==
    chartState = "drawn"
       => \A window \in sortedHistory :
             100 * maxVal(window).num
                = 115 * MaxOf(intakeValues(window)) * maxVal(window).den

\* the headroom the code gives: 20 %
HeadroomTwentyPercent ==
    chartState = "drawn"
       => \A window \in sortedHistory :
             10 * maxVal(window).num
                = 12 * MaxOf(intakeValues(window)) * maxVal(window).den

\* the y of a value is a number with 0 < y <= height
WithinPlot(y) ==
    /\ y.kind = "finite"
    /\ y.den > 0
    /\ 0 < y.num
    /\ y.num <= ChartHeight * y.den

\* what C21 says of the chart drawn for window
PlotPost(window) ==
    /\ \A i \in 1..Len(window) : WithinPlot(getY(window[i].caloriesIntake, window))
    /\ WithinPlot(tdeeY(window))
    /\ \A i, j \in 1..Len(window) :
          window[i].caloriesIntake >= window[j].caloriesIntake
             => \* the two fractions have one denominator
                /\ getY(window[i].caloriesIntake, window).den
                      = getY(window[j].caloriesIntake, window).den
                /\ getY(window[i].caloriesIntake, window).num
                      <= getY(window[j].caloriesIntake, window).num

\* C21: in every drawn chart, also one whose intakes and TDEE are all 0, the
\* y of each point and of the TDEE line is a number (no division by zero)
\* with 0 < y <= plotHeight, and a larger intake is never plotted lower.
\* Stated as written; with every value 0 maxVal is 0 and y is 0 / 0.
C21_PlotWellDefined ==
    chartState = "drawn" => \A window \in sortedHistory : PlotPost(window)

\* the same for the charts whose largest value is positive
PlotWellDefinedAboveZero ==
    chartState = "drawn"
       => \A window \in sortedHistory :
             MaxOf(intakeValues(window)) > 0 => PlotPost(window)

\* YYYY-MM-DD strings compared as strings: '' is below every date
DateStringLess(a, b) ==
    \/ a = <<>> /\ b # <<>>
    \/ /\ a # <<>> /\ b # <<>>
       /\ \/ a[1] < b[1]
          \/ a[1] = b[1] /\ a[2] < b[2]
          \/ a[1] = b[1] /\ a[2] = b[2] /\ a[3] < b[3]

\* C10: the stored records are in strictly descending order of date.  Stated
\* as written; a save with the date input cleared breaks it.
C10_DescendingByDate ==
    \A i \in 1..(Len(history) - 1) : DateStringLess(history[i + 1].date, history[i].date)

----------------------------------------------------------------------------
(* AI lookup: handleAiEstimate (first App), estimateCaloriesWithAI (second) *)

MaxLookups == 3     \* generateContent calls in one behaviour

\* the objects JSON.parse(response.text) can give: the model decides name and
\* calories, whatever the name asked for
WellFormedReplies ==
    [name : {"apple", "bun", "feast"}, calories : {95, 120}, unit : {"piece"}]

\* parsed objects with an empty name, a negative calories or an empty unit
MalformedReplies ==
    { [name |-> "", calories |-> 95, unit |-> "piece"],
      [name |-> "bun", calories |-> -5, unit |-> "piece"],
      [name |-> "bun", calories |-> 95, unit |-> ""] }

Replies == WellFormedReplies \cup MalformedReplies

RemoveAt(seq, i) == SubSeq(seq, 1, i - 1) \o SubSeq(seq, i + 1, Len(seq))

\* what the closure of one call of the handler holds: the render's
\* searchQuery / foodSearch, foodLibrary and selectedMeal
Closure ==
    [query |-> IF app = 1 THEN searchQuery ELSE foodSearch,
     foodLibrary |-> foodLibrary,
     selectedMeal |-> selectedMeal]

\* one generateContent call: the closure of the handler that awaits it, and
\* whether the service will ever settle the promise
Call(responds) ==
    [query |-> Closure.query,
     foodLibrary |-> Closure.foodLibrary,
     selectedMeal |-> Closure.selectedMeal,
     responds |-> responds]

\* the pending calls whose promise settles
Settling == {i \in 1..Len(pending) : pending[i].responds}

\* handleAiEstimate up to its await: the Enter key of the search field calls
\* it whether or not a call is pending, the button only when none is
handleAiEstimate ==
    /\ app = 1
    /\ searchQuery # ""
    /\ IF ~apiKey
       THEN /\ aiError' = "no key"
            /\ UNCHANGED <<isAiLoading, pending, resolverCalls>>
       ELSE /\ resolverCalls < MaxLookups
            /\ isAiLoading' = TRUE
            /\ aiError' = ""
            /\ \E responds \in BOOLEAN : pending' = Append(pending, Call(responds))
            /\ resolverCalls' = resolverCalls + 1
    /\ lastOp' = Op("handleAiEstimate", apiKey)
    /\ UNCHANGED <<app, storeVars, bioVars, mealVars, searchVars, libVars, recordVars,
                   alertMsg, apiKey, now>>

\* handleAiEstimate after its await, the response holding a JSON text
handleAiEstimateReply ==
    /\ app = 1
    /\ \E i \in Settling, newItem \in Replies :
          /\ foodLibrary' =
                IF ~\E f \in Range(pending[i].foodLibrary) : f.name = newItem.name
                THEN Append(foodLibrary, newItem)
                ELSE foodLibrary
          /\ handleAddFood(newItem)
          /\ pending' = RemoveAt(pending, i)
    /\ searchQuery' = ""
    /\ isAiLoading' = FALSE
    /\ lastOp' = Op("handleAiEstimateReply", TRUE)
    /\ UNCHANGED <<app, pc, loaded, atMount, bioVars, mealLog, selectedMeal, foodSearch, customFoods,
                   recordVars, aiError, alertMsg, apiKey, resolverCalls>>
    \* the save effect on [foodLibrary]
    /\ localStorage' = IF foodLibrary' # foodLibrary
                       THEN setItem(localStorage, "foodLibrary", JSONstringifyList(foodLibrary'))
                       ELSE localStorage

\* handleAiEstimate after its await, response.text being undefined or ''
handleAiEstimateNoText ==
    /\ app = 1
    /\ \E i \in Settling : pending' = RemoveAt(pending, i)
    /\ isAiLoading' = FALSE
    /\ lastOp' = Op("handleAiEstimateNoText", FALSE)
    /\ UNCHANGED <<app, storeVars, bioVars, mealVars, searchVars, libVars, recordVars,
                   aiError, alertMsg, apiKey, resolverCalls, now>>

\* handleAiEstimate after its await, in its catch: the call was rejected
\* (network, key refused) or JSON.parse threw
handleAiEstimateCatch ==
    /\ app = 1
    /\ \E i \in Settling : pending' = RemoveAt(pending, i)
    /\ aiError' = "unavailable"
    /\ isAiLoading' = FALSE
    /\ lastOp' = Op("handleAiEstimateCatch", FALSE)
    /\ UNCHANGED <<app, storeVars, bioVars, mealVars, searchVars, libVars, recordVars,
                   alertMsg, apiKey, resolverCalls, now>>

\* estimateCaloriesWithAI up to its await: its button shows while foodSearch
\* is not empty and is disabled while a call is pending
estimateCaloriesWithAI ==
    /\ app = 2
    /\ foodSearch # ""
    /\ ~isAiLoading
    /\ IF ~apiKey
       THEN /\ alertMsg' = "no key"
            /\ UNCHANGED <<isAiLoading, pending, resolverCalls>>
       ELSE /\ resolverCalls < MaxLookups
            /\ isAiLoading' = TRUE
            /\ \E responds \in BOOLEAN : pending' = Append(pending, Call(responds))
            /\ resolverCalls' = resolverCalls + 1
            /\ alertMsg' = ""
    /\ lastOp' = Op("estimateCaloriesWithAI", apiKey)
    /\ UNCHANGED <<app, storeVars, bioVars, mealVars, searchVars, libVars, recordVars,
                   aiError, apiKey, now>>

\* estimateCaloriesWithAI after its await, the response holding a JSON text
estimateCaloriesWithAIReply ==
    /\ app = 2
    /\ \E i \in Settling, data \in Replies, t \in now..MaxNow :
          LET aiFood == [id |-> <<"ai", t>>, name |-> data.name, unit |-> data.unit,
                          calories |-> data.calories, isCustom |-> TRUE]
          IN /\ now' = t
             /\ customFoods' = Append(customFoods, aiFood)
             /\ addFood(aiFood, pending[i].selectedMeal)
             /\ pending' = RemoveAt(pending, i)
    /\ isAiLoading' = FALSE
    /\ alertMsg' = ""
    /\ lastOp' = Op("estimateCaloriesWithAIReply", TRUE)
    /\ UNCHANGED <<app, storeVars, bioVars, currentMeals, selectedMeal, searchQuery, foodLibrary,
                   recordVars, aiError, apiKey, resolverCalls>>

\* estimateCaloriesWithAI after its await, response.text being undefined or ''
estimateCaloriesWithAINoText ==
    /\ app = 2
    /\ \E i \in Settling : pending' = RemoveAt(pending, i)
    /\ isAiLoading' = FALSE
    /\ alertMsg' = ""
    /\ lastOp' = Op("estimateCaloriesWithAINoText", FALSE)
    /\ UNCHANGED <<app, storeVars, bioVars, mealVars, searchVars, libVars, recordVars,
                   aiError, apiKey, resolverCalls, now>>

\* estimateCaloriesWithAI after its await, in its catch
estimateCaloriesWithAICatch ==
    /\ app = 2
    /\ \E i \in Settling : pending' = RemoveAt(pending, i)
    /\ alertMsg' = "failed"
    /\ isAiLoading' = FALSE
    /\ lastOp' = Op("estimateCaloriesWithAICatch", FALSE)
    /\ UNCHANGED <<app, storeVars, bioVars, mealVars, searchVars, libVars, recordVars,
                   aiError, apiKey, resolverCalls, now>>

\* either App, with or without an API key in the environment
InitLookup ==
    /\ app \in {1, 2}
    /\ stats = IF app = 1 THEN INITIAL_STATS ELSE INITIAL_STATS2
    /\ tdee = TdeeOf(app, stats)
    /\ bmr = BmrOf(app, stats)
    /\ currentMeals = <<>>
    /\ searchQuery = ""
    /\ foodLibrary = IF app = 1 THEN LoadedLibrary ELSE <<>>
    /\ selectedDate = getTodayDateString
    /\ history = <<>>
    /\ mealLog = [lunch |-> <<>>, dinner |-> <<>>]
    /\ foodSearch = ""
    /\ selectedMeal = "lunch"
    /\ customFoods = <<>>
    /\ now = 0
    /\ InitAi
    /\ Mounted
    /\ apiKey \in BOOLEAN
    /\ lastOp = Op("mount", FALSE)

NextLookup ==
    \/ setSearchQuery
    \/ handleAiEstimate
    \/ handleAiEstimateReply
    \/ handleAiEstimateNoText
    \/ handleAiEstimateCatch
    \/ setFoodSearch
    \/ estimateCaloriesWithAI
    \/ estimateCaloriesWithAIReply
    \/ estimateCaloriesWithAINoText
    \/ estimateCaloriesWithAICatch

SpecLookup == InitLookup /\ [][NextLookup]_vars

\* the part of a handler after its await: the event loop runs it once the
\* promise has settled
Continuation ==
    \/ handleAiEstimateReply
    \/ handleAiEstimateNoText
    \/ handleAiEstimateCatch
    \/ estimateCaloriesWithAIReply
    \/ estimateCaloriesWithAINoText
    \/ estimateCaloriesWithAICatch

SpecLookupFair == SpecLookup /\ WF_vars(Continuation)

----------------------------------------------------------------------------
(* Claims on the lookup *)

\* the food library of the mounted component
Library == IF app = 1 THEN foodLibrary ELSE PREDEFINED_FOODS \o customFoods

\* the meal ledger of the mounted component
Ledger == IF app = 1 THEN [lunch |-> currentMeals, dinner |-> <<>>] ELSE mealLog

UniqueNames(lib) == \A i, j \in 1..Len(lib) : lib[i].name = lib[j].name => i = j

\* every item of lib is in lib2, with its name, calories and unit
Kept(lib, lib2) ==
    \A i \in 1..Len(lib) :
        \E j \in 1..Len(lib2) :
            /\ lib2[j].name = lib[i].name
            /\ lib2[j].calories = lib[i].calories
            /\ lib2[j].unit = lib[i].unit

\* the library loses no item and changes none
LibraryAppendOnly == [][Kept(Library, Library')]_vars

\* C4: the library never holds two items of one name, never loses an item
\* and never changes the calories or unit of an item.  Stated as written;
\* overlapping lookups (first App) and repeated lookups (second App) store
\* a name twice.
C4_LibraryKeyedByName == [][UniqueNames(Library') /\ Kept(Library, Library')]_vars

\* the name the next lookup asks for
Query == IF app = 1 THEN searchQuery ELSE foodSearch

NameInLibrary(name) == \E i \in 1..Len(Library) : Library[i].name = name

\* C5: a lookup of a name that is in the library does not call the
\* resolver.  Stated as written; the handlers call it without consulting
\* the library.
C5_CachedNameNotResolved ==
    [][(lastOp'.op \in {"handleAiEstimate", "estimateCaloriesWithAI"}
          /\ NameInLibrary(Query))
        => resolverCalls' = resolverCalls]_vars

\* the steps in which a lookup fails
LookupFailures ==
    {"handleAiEstimateNoText", "handleAiEstimateCatch",
     "estimateCaloriesWithAINoText", "estimateCaloriesWithAICatch"}

\* a failed lookup leaves the library and the ledger as they were
FailureMutatesNothing ==
    [][(lastOp'.op \in LookupFailures \/ (lastOp'.op \in {"handleAiEstimate",
            "estimateCaloriesWithAI"} /\ ~lastOp'.hit))
        => (Library' = Library /\ Ledger' = Ledger)]_vars

\* C6: a failed lookup (rejected, no key, empty or unparsable response)
\* leaves the library and the ledger as they were and shows an error
\* message.  Stated as written; an empty response shows none.
C6_FailureSurfaced ==
    [][(lastOp'.op \in LookupFailures \/ (lastOp'.op \in {"handleAiEstimate",
            "estimateCaloriesWithAI"} /\ ~lastOp'.hit))
        => /\ Library' = Library
           /\ Ledger' = Ledger
           /\ IF app = 1 THEN aiError' # "" ELSE alertMsg' # ""]_vars

\* what C13 says of an add made by caller source, in the first App
AddPost(source) ==
    /\ Len(currentMeals') = Len(currentMeals) + 1
    /\ SubSeq(currentMeals', 1, Len(currentMeals)) = currentMeals
    /\ LET entry == currentMeals'[Len(currentMeals')]
       IN /\ entry.quantity = 2
          /\ entry.source = source
          /\ \E item \in Range(foodLibrary) \cup Replies :
                /\ entry.name = item.name
                /\ entry.calories = item.calories
                /\ entry.unit = item.unit

\* C13: every add appends one entry at the end of the ledger, with quantity 1
\* and the item's name, calories and unit, marked ai-estimated when it comes
\* from a successful AI lookup and user-entered when it comes from the
\* suggestions.  Stated as written; the entry of a lookup is marked 'user'.
C13_AddProvenance ==
    [][/\ lastOp'.op = "handleAddFood" => AddPost("user")
       /\ lastOp'.op = "handleAiEstimateReply" => AddPost("ai")]_vars

\* the same with the provenance the code gives every entry
AddAppendsOne ==
    [][lastOp'.op \in {"handleAddFood", "handleAiEstimateReply"} => AddPost("user")]_vars

WellFormed(item) == item.name # "" /\ item.unit # "" /\ item.calories >= 0

\* C15: every item of the library and every entry of the ledger has a
\* non-empty name, a non-empty unit and calories >= 0, a payload without
\* them being rejected.  Stated as written; the handlers store the parsed
\* object as it is.
C15_ItemsWellFormed ==
    /\ \A i \in 1..Len(Library) : WellFormed(Library[i])
    /\ \A i \in 1..Len(currentMeals) : WellFormed(currentMeals[i])
    /\ \A m \in {"lunch", "dinner"} :
          \A i \in 1..Len(mealLog[m]) : WellFormed(mealLog[m][i].food)

\* every pending call whose promise settles ends, the flag cleared
SettlingLookupsEnd == (Settling # {}) ~> (Settling = {})

\* C16: every lookup that is started ends, also when the resolver never
\* responds, and the loading flag is false after it.  Stated as written; a
\* call that is never answered is awaited for ever.
C16_LookupEnds == (pending # <<>>) ~> (pending = <<>> /\ ~isAiLoading)

----------------------------------------------------------------------------
(* Claims on the chart window *)

\* what C22 says of window, a value of sortedHistory
WindowPost(window) ==
    /\ Len(window) = (IF Len(history) <= WindowSize THEN Len(history) ELSE WindowSize)
    /\ Range(window) \subseteq Range(history)
    /\ \A i \in 1..(Len(window) - 1) : DateStringLess(window[i].date, window[i + 1].date)
    /\ \A r \in Range(history) \ Range(window) :
          \A i \in 1..Len(window) : DateStringLess(r.date, window[i].date)
    /\ Len(points(window)) = Len(window)
    /\ \A i \in 1..Len(window) :
          /\ points(window)[i].x = getX(i - 1, Len(window))
          /\ points(window)[i].y = getY(window[i].caloriesIntake, window)

\* C22: the chart window holds the min(7, store size) records of the most
\* recent dates in ascending date order, with one plotted point per record
\* in that order.  Stated as written; a record saved with the date input
\* cleared is not sorted into its place.
C22_WindowChronological == \A window \in sortedHistory : WindowPost(window)

\* the same for the stores in which every record has a date
WindowChronologicalDated ==
    (\A i \in 1..Len(history) : ~IsNaN(history[i].date))
       => \A window \in sortedHistory : WindowPost(window)

----------------------------------------------------------------------------
(* Claims on persistence and startup *)

\* the steps of the startup sequence, as lastOp names them
StartupOps ==
    {"mount", "tdeeEffect", "loadEffect", "saveLibraryEffect", "saveHistoryEffect",
     "saveStatsEffect", "rerender"}

\* the state variable a slot belongs to
InMemory(key) ==
    CASE key = "foodLibrary" -> foodLibrary
      [] key = "dailyRecords" -> [i \in 1..Len(history) |-> omitUndefined(history[i])]
      [] key = "userStats" -> stats

\* once the effects have run, the three slots the first App writes hold its
\* library, its record store and its profile
SlotsMirrorState ==
    (app = 1 /\ pc = "ready") => localStorage = savedState(foodLibrary, history, stats)

\* C23: once the effects of a user action have run, each persisted slot
\* equals the state it belongs to: the library slot the library, the records
\* slot the record store, the profile slot the profile, and a slot of the
\* meal ledger the current ledger.
C23_SlotsEqualState ==
    (app = 1 /\ pc = "ready" /\ lastOp.op \notin StartupOps) =>
        /\ localStorage = savedState(foodLibrary, history, stats)
        /\ \E key \in DOMAIN localStorage :
              localStorage[key] = <<JSONstringifyList(currentMeals)>>

\* a slot that held a value at the mount holds it again when the startup is
\* over, and the state variable has that value
StartupRestores ==
    lastOp.op = "rerender" =>
        \A key \in DOMAIN atMount :
            atMount[key] # <<>> =>
                /\ localStorage[key] = atMount[key]
                /\ InMemory(key) = JSONparse(atMount[key][1])

\* C26: startup never loses persisted data: in every state during and after
\* the startup sequence each slot that held a value before startup holds
\* that value, and after startup the state in memory equals it.
C26_StartupKeepsData ==
    lastOp.op \in StartupOps =>
        \A key \in DOMAIN atMount :
            atMount[key] # <<>> =>
                /\ localStorage[key] = atMount[key]
                /\ pc = "ready" => InMemory(key) = JSONparse(atMount[key][1])

----------------------------------------------------------------------------
(* Claims on the lookup: cached values, one call at a time *)

\* the entry a step appended to the ledger of the first App
lastEntry == currentMeals[Len(currentMeals)]

\* C24: after every successful lookup the entry appended to the ledger has
\* the calories and the unit of the library item of the same name: the cached
\* values when the name was in the library already.
C24_CachedValues ==
    (app = 1 /\ lastOp.op = "handleAiEstimateReply") =>
        /\ \E i \in 1..Len(foodLibrary) : foodLibrary[i].name = lastEntry.name
        /\ \A i \in 1..Len(foodLibrary) :
              foodLibrary[i].name = lastEntry.name =>
                  /\ foodLibrary[i].calories = lastEntry.calories
                  /\ foodLibrary[i].unit = lastEntry.unit

\* a lookup that adds its item to the library appends an entry with the
\* values of that item
NewNameCarriesResolved ==
    [][(app = 1 /\ lastOp'.op = "handleAiEstimateReply" /\ foodLibrary' # foodLibrary) =>
          /\ currentMeals'[Len(currentMeals')].name = foodLibrary'[Len(foodLibrary')].name
          /\ currentMeals'[Len(currentMeals')].calories = foodLibrary'[Len(foodLibrary')].calories
          /\ currentMeals'[Len(currentMeals')].unit = foodLibrary'[Len(foodLibrary')].unit]_vars

\* C25: at most one lookup is in flight at any time, and isAiLoading is true
\* in every state in which a lookup is pending.
C25_OneLookupInFlight ==
    /\ Len(pending) <= 1
    /\ pending # <<>> => isAiLoading

\* the second App, whose only trigger is the button disabled while loading
OneLookupInFlightSecondApp ==
    app = 2 => /\ Len(pending) <= 1
               /\ pending # <<>> => isAiLoading

====
